---- MODULE Spec2Model ----
(***************************************************************************)
(* BotInvest: the multi-provider history fetcher (DataLoader) with its     *)
(* callers in the dashboard, and the paper-trading ledger (PaperTrader).   *)
(*                                                                         *)
(* SpecFetch  : one get_stock_history call at a time, a step per provider  *)
(*              attempt, every provider outcome chosen nondeterministically*)
(* SpecFetchLive : calls of get_stock_history with any arguments, every    *)
(*              started call running on.                                   *)
(* SpecTrader : buy / sell calls on one PaperTrader and its data file.     *)
(* SpecTicker : a ticker typed by the user, normalize_ticker, to_futu_code  *)
(*              and the two web providers applied to it.                   *)
(* SpecCache  : calls of cached_history and cached_probe_futu as time      *)
(*              passes.                                                    *)
(* SpecValue  : total_value of the accounts a PaperTrader can hold.         *)
(* SpecLedger : one PaperTrader on its data file, the save in two steps.    *)
(* SpecSessions : two PaperTrader instances on one data file that may      *)
(*              already exist, with crashes.                               *)
(* SpecQuote  : the Futu quote contexts that probe_futu_quote and          *)
(*              get_stock_history open and close.                          *)
(* SpecReruns : reruns of the dashboard's main() and the series its        *)
(*              analysis tab uses.                                         *)
(***************************************************************************)
EXTENDS Integers, Sequences, FiniteSets, TLC

VARIABLES
    \* ---- DataLoader.get_stock_history, one call in progress ----
    pc,             \* position in get_stock_history
    ds,             \* data_source argument, lowered and stripped
    allow_fallback, \* allow_fallback argument
    futu_enabled,   \* futu_enabled argument
    sampleExists,   \* os.path.exists("data/sample_data.csv")
    caller,         \* who made the call: direct / analysis tab / trading tab
    probeOk,        \* ok, as cached_probe_futu returned it in this rerun
    attempt,        \* loop variable of the Yahoo retry loop
    log,            \* provider events of this call, in order
    result,         \* what the call returned
    raised,         \* an exception escaped get_stock_history
    \* ---- PaperTrader ----
    cash,           \* account.cash
    positions,      \* account.positions: ticker -> [qty, avg_cost]
    history,        \* account.history
    file,           \* content of the data file
    last,           \* the last buy/sell call: its arguments and what it returned
    \* ---- PaperTrader instances bound to one data file ----
    sess,           \* per instance: its stage, its account, its last call
    disk,           \* content of the data file these instances share
    made,           \* successful trades made so far
    \* ---- ticker codes, the dashboard's caches, the account's valuation ----
    tk,             \* a ticker as typed and what the code functions made of it
    cch,            \* the clock and the entries of cached_history / cached_probe_futu
    tv,             \* an account, the prices given and its total_value
    \* ---- quote contexts, the dashboard's reruns, order codes ----
    qc,             \* the Futu quote contexts opened and closed by a call
    rerun,          \* st.session_state and the series the analysis tab uses
    oc              \* the context and code FutuTrader picks for a ticker

fetchVars == <<pc, ds, allow_fallback, futu_enabled, sampleExists, caller,
               probeOk, attempt, log, result, raised>>
ledgerVars == <<sess, disk, made>>
appVars == <<qc, rerun, oc>>
toolVars == <<tk, cch, tv, appVars>>
traderVars == <<cash, positions, history, file, last, ledgerVars, toolVars>>
vars == <<fetchVars, traderVars>>

(***************************************************************************)
(* Providers and their outcomes                                            *)
(***************************************************************************)
Providers == {"futu", "yahoo", "stooq", "alphavantage"}

\* data_source values: auto, the four providers, and any other string
Sources == {"auto"} \cup Providers \cup {"other"}

\* What provider_factory() followed by get_history(...) can do:
\*   ctor_fail   the constructor raised (FutuQuoteProvider, YahooFinanceProvider)
\*   rate_limit  get_history raised, message has Too Many Requests / Rate limited
\*   error       get_history raised anything else
\*   none        get_history returned None
\*   empty       get_history returned a DataFrame with no rows
\*   rows        get_history returned a DataFrame with rows
CallOutcomes == {"rate_limit", "error", "none", "empty", "rows"}

HasCtor(p) == p \in {"futu", "yahoo"}

Outcomes(p) == CallOutcomes \cup (IF HasCtor(p) THEN {"ctor_fail"} ELSE {})

\* a variant of the retry loop with one more iteration
MaxAttemptsMore == 3 + 1

MaxAttempts == 3

\* time.sleep(1.5 * (attempt + 1)), in tenths of a second
BackoffTenths(a) == 15 * (a + 1)

Event(kind, prov, phase, out, dur) ==
    [kind |-> kind, prov |-> prov, phase |-> phase, out |-> out, dur |-> dur]

NoResult == [kind |-> "pending", tag |-> "-"]
NoneResult == [kind |-> "none", tag |-> "-"]
DataFrame(tag) == [kind |-> "df", tag |-> tag]

(***************************************************************************)
(* try_provider(provider_name, provider_factory)                           *)
(***************************************************************************)
\* a variant of try_provider without its except clause
TryProviderNoExcept(provider_name, out) ==
    CASE out = "rows" -> DataFrame(provider_name)
      [] out \in {"none", "empty"} -> NoneResult
      [] OTHER -> [kind |-> "raise", tag |-> "-"]

\* a variant of try_provider that returns any DataFrame, rows or not
TryProviderNoEmptyCheck(provider_name, out) ==
    CASE out \in {"rows", "empty"} -> DataFrame(provider_name)
      [] OTHER -> NoneResult

\* what try_provider returns: the tagged frame, or None
TryProvider(provider_name, out) ==
    CASE out = "rows" -> DataFrame(provider_name)
      [] out \in {"none", "empty"} -> NoneResult
      [] OTHER -> NoneResult   \* except Exception: print, return None

(***************************************************************************)
(* The layout of get_stock_history                                         *)
(***************************************************************************)
\* the explicit branch is taken for every data_source but auto
ExplicitBranch(d) == d # "auto"

\* the provider the explicit branch builds ("-" : df = None, no provider)
ExplicitProvider(d) == IF d \in Providers THEN d ELSE "-"

\* where the auto chain starts: the Futu block, guarded by futu_enabled
AutoEntry(enabled) == IF enabled THEN "futu" ELSE "yahoo_ctor"

\* after the explicit branch yields None the code runs on into the auto chain
AfterExplicit(enabled) == AutoEntry(enabled)

\* a variant of the chain with Stooq tried before Yahoo
AfterStageSwapped(stage) ==
    CASE stage = "futu" -> "stooq"
      [] stage = "stooq" -> "yahoo_ctor"
      [] stage = "yahoo" -> "alphavantage"
      [] stage = "alphavantage" -> "local"

\* the block that follows each block of the auto chain
AfterStage(stage) ==
    CASE stage = "futu" -> "yahoo_ctor"
      [] stage = "yahoo" -> "stooq"
      [] stage = "stooq" -> "alphavantage"
      [] stage = "alphavantage" -> "local"

\* a variant of the retry loop that retries after any exception
YahooRetriesAnyError(out) == out \in {"rate_limit", "error"}

\* the inner except clause: sleep and continue on a rate-limit message
YahooRetries(out) == out = "rate_limit"

\* the outer try/except around the Yahoo block catches the re-raise
YahooEscapes(out) == FALSE

\* a variant of the local-sample step that ignores allow_fallback
UseLocalSampleAlways(allow, exists) == exists

\* the local-sample step is taken when allowed and the file exists
UseLocalSample(allow, exists) == allow /\ exists

(***************************************************************************)
(* The callers in app.py                                                   *)
(***************************************************************************)
\* the sidebar downgrades an explicit futu choice when the probe fails
SidebarSource(ui, ok) == IF ~ok /\ ui = "futu" THEN "auto" ELSE ui

\* the futu_enabled argument cached_history is given
AnalysisFutuEnabled(d, ok) == IF d = "auto" THEN ok ELSE TRUE

\* the trading tab calls get_stock_history without futu_enabled: its default
TradingFutuEnabled(d, ok) == TRUE


\* a variant that tags a frame with the requested source, not the provider
ProviderTagRequested(p) == IF ds \in Providers THEN ds ELSE p

\* the provider_name literal written at each call site of try_provider, and
\* the literal of df.attrs["data_source"] in the Yahoo loop
ProviderTag(p) == p

(***************************************************************************)
(* get_stock_history, step by step                                         *)
(***************************************************************************)
\* entry of get_stock_history with its arguments bound
Begin(d, allow, enabled, exists, who, ok) ==
    /\ ds' = d
    /\ allow_fallback' = allow
    /\ futu_enabled' = enabled
    /\ sampleExists' = exists
    /\ caller' = who
    /\ probeOk' = ok
    /\ attempt' = 0
    /\ log' = <<>>
    /\ result' = NoResult
    /\ raised' = FALSE
    /\ pc' = IF ExplicitBranch(d) THEN "explicit" ELSE AutoEntry(enabled)

\* any caller of DataLoader.get_stock_history, with any arguments
CallDirect ==
    /\ pc = "idle"
    /\ \E d \in Sources, allow \in BOOLEAN, enabled \in BOOLEAN, exists \in BOOLEAN :
          Begin(d, allow, enabled, exists, "direct", probeOk)
    /\ UNCHANGED traderVars

\* a rerun of app.py main(): the sidebar, the probe, then the analysis tab's
\* cached_history call (a cache miss)
RerunAnalysis ==
    /\ pc = "idle"
    /\ \E ui \in {"auto"} \cup Providers, offline \in BOOLEAN,
          ok \in BOOLEAN, exists \in BOOLEAN :
          LET d == SidebarSource(ui, ok)
          IN  Begin(d, offline, AnalysisFutuEnabled(d, ok), exists, "analysis", ok)
    /\ UNCHANGED traderVars

\* the trading tab of the same rerun: a price lookup for a held ticker other
\* than the displayed one; reached only when the analysis tab got a frame
TradingLookup ==
    /\ pc = "done"
    /\ \/ caller = "analysis" /\ result.kind = "df"
       \/ caller = "trading"
    /\ \E exists \in BOOLEAN :
          Begin(ds, FALSE, TradingFutuEnabled(ds, probeOk), exists, "trading", probeOk)
    /\ UNCHANGED traderVars

\* what follows an attempt that returned r: return it, propagate, or go on
Finish(r, next) ==
    /\ result' = IF r.kind = "df" THEN r ELSE result
    /\ raised' = (r.kind = "raise")
    /\ pc' = IF r.kind \in {"df", "raise"} THEN "done" ELSE next

\* one try_provider call of the block at stage p, going on to next
TryStep(p, phase, next) ==
    \E out \in Outcomes(p) :
        /\ log' = Append(log, Event("try", p, phase, out, 0))
        /\ Finish(TryProvider(ProviderTag(p), out), next)

ExplicitStep ==
    /\ pc = "explicit"
    /\ IF ExplicitProvider(ds) = "-"
       THEN /\ pc' = AfterExplicit(futu_enabled)
            /\ UNCHANGED <<log, result, raised>>
       ELSE TryStep(ExplicitProvider(ds), "explicit", AfterExplicit(futu_enabled))
    /\ UNCHANGED <<ds, allow_fallback, futu_enabled, sampleExists, caller, probeOk, attempt>>
    /\ UNCHANGED traderVars

FutuStep ==
    /\ pc = "futu"
    /\ TryStep("futu", "auto", AfterStage("futu"))
    /\ UNCHANGED <<ds, allow_fallback, futu_enabled, sampleExists, caller, probeOk, attempt>>
    /\ UNCHANGED traderVars

\* provider = YahooFinanceProvider(), inside the outer try
YahooConstruct ==
    /\ pc = "yahoo_ctor"
    /\ \E out \in {"ok", "ctor_fail"} :
          /\ log' = Append(log, Event("ctor", "yahoo", "auto", out, 0))
          /\ IF out = "ok"
             THEN pc' = "yahoo" /\ raised' = raised
             ELSE /\ raised' = YahooEscapes(out)
                  /\ pc' = IF YahooEscapes(out) THEN "done" ELSE AfterStage("yahoo")
    /\ attempt' = 0
    /\ UNCHANGED <<ds, allow_fallback, futu_enabled, sampleExists, caller, probeOk, result>>
    /\ UNCHANGED traderVars

\* one iteration of for attempt in range(3)
YahooAttempt ==
    /\ pc = "yahoo"
    /\ \E out \in CallOutcomes :
          LET call == Event("call", "yahoo", "auto", out, 0)
              sleep == Event("sleep", "yahoo", "auto", "slept", BackoffTenths(attempt))
          IN  CASE out = "rows" ->
                     /\ log' = Append(log, call)
                     /\ result' = DataFrame(ProviderTag("yahoo"))
                     /\ pc' = "done"
                     /\ UNCHANGED <<attempt, raised>>
                [] out \in {"none", "empty"} ->          \* last_err = None; break
                     /\ log' = Append(log, call)
                     /\ pc' = AfterStage("yahoo")
                     /\ UNCHANGED <<attempt, result, raised>>
                [] OTHER ->
                     IF YahooRetries(out)
                     THEN /\ log' = log \o <<call, sleep>>     \* sleep; continue
                          /\ IF attempt + 1 < MaxAttempts
                             THEN attempt' = attempt + 1 /\ pc' = pc
                             ELSE attempt' = attempt /\ pc' = AfterStage("yahoo")
                          /\ UNCHANGED <<result, raised>>
                     ELSE /\ log' = Append(log, call)          \* raise
                          /\ raised' = YahooEscapes(out)
                          /\ pc' = IF YahooEscapes(out) THEN "done" ELSE AfterStage("yahoo")
                          /\ UNCHANGED <<attempt, result>>
    /\ UNCHANGED <<ds, allow_fallback, futu_enabled, sampleExists, caller, probeOk>>
    /\ UNCHANGED traderVars

StooqStep ==
    /\ pc = "stooq"
    /\ TryStep("stooq", "auto", AfterStage("stooq"))
    /\ UNCHANGED <<ds, allow_fallback, futu_enabled, sampleExists, caller, probeOk, attempt>>
    /\ UNCHANGED traderVars

AlphaVantageStep ==
    /\ pc = "alphavantage"
    /\ TryStep("alphavantage", "auto", AfterStage("alphavantage"))
    /\ UNCHANGED <<ds, allow_fallback, futu_enabled, sampleExists, caller, probeOk, attempt>>
    /\ UNCHANGED traderVars

\* the local sample file, then return None
LocalStep ==
    /\ pc = "local"
    /\ result' = IF UseLocalSample(allow_fallback, sampleExists)
                 THEN DataFrame("local_sample") ELSE NoneResult
    /\ pc' = "done"
    /\ UNCHANGED <<ds, allow_fallback, futu_enabled, sampleExists, caller, probeOk,
                   attempt, log, raised>>
    /\ UNCHANGED traderVars

\* the caller takes the result; the next call starts afresh
Return ==
    /\ pc = "done"
    /\ pc' = "idle"
    /\ ds' = "auto" /\ allow_fallback' = FALSE /\ futu_enabled' = TRUE
    /\ sampleExists' = FALSE /\ caller' = "direct" /\ probeOk' = TRUE
    /\ attempt' = 0 /\ log' = <<>> /\ result' = NoResult /\ raised' = FALSE
    /\ UNCHANGED traderVars

FetchNext ==
    \/ CallDirect
    \/ RerunAnalysis
    \/ TradingLookup
    \/ ExplicitStep
    \/ FutuStep
    \/ YahooConstruct
    \/ YahooAttempt
    \/ StooqStep
    \/ AlphaVantageStep
    \/ LocalStep
    \/ Return

(***************************************************************************)
(* PaperTrader                                                             *)
(***************************************************************************)
InitialCash == 100000

MaxTrades == 2

Tickers == {"AAPL", "TSLA"}

\* o_qty = st.number_input(value=100, step=100): any integer, no minimum
Qtys == {-1000, 0, 100, 1000}

\* o_price = st.number_input(step=0.1): no minimum; whole prices here
Prices == {100, 150}

\* avg_cost is a Python float; here the exact quotient, a fraction n/d in
\* lowest terms with d > 0
Abs(x) == IF x < 0 THEN -x ELSE x

RECURSIVE Gcd(_, _)
Gcd(a, b) == IF b = 0 THEN a ELSE Gcd(b, a % b)

Frac(n, d) ==
    LET g == Gcd(Abs(n), Abs(d))
        sgn == IF d < 0 THEN -1 ELSE 1
    IN  [n |-> sgn * (n \div g), d |-> sgn * (d \div g)]

Zero == [n |-> 0, d |-> 1]

\* json.dump of cash / positions / history
Snapshot(c, ps, h) == [cash |-> c, positions |-> ps, history |-> h]

\* a variant of _log_trade's record whose amount leaves out the quantity
TradeRecordUnitAmount(action, ticker, qty, price) ==
    [action |-> action, ticker |-> ticker, qty |-> qty, price |-> price,
     amount |-> price]

\* _log_trade's record (the date field is left out)
TradeRecord(action, ticker, qty, price) ==
    [action |-> action, ticker |-> ticker, qty |-> qty, price |-> price,
     amount |-> qty * price]

Call(op, ticker, qty, price, ret) ==
    [op |-> op, ticker |-> ticker, qty |-> qty, price |-> price, ret |-> ret]

\* a variant of buy's funds check that also rejects cost equal to cash
InsufficientFundsStrict(cost, c) == cost >= c

\* if cost > self.account.cash
InsufficientFunds(cost, c) == cost > c

\* a variant of sell's check that also rejects selling the whole position
InsufficientPositionStrict(ps, ticker, qty) ==
    ticker \notin DOMAIN ps \/ ps[ticker].qty <= qty

\* if ticker not in positions or positions[ticker]['qty'] < qty
InsufficientPosition(ps, ticker, qty) ==
    ticker \notin DOMAIN ps \/ ps[ticker].qty < qty

\* positions with ticker bound to pos
SetPosition(ps, ticker, pos) ==
    [t \in DOMAIN ps \cup {ticker} |-> IF t = ticker THEN pos ELSE ps[t]]

\* a variant of the deletion that clears every position
DelPositionAll(ps, ticker) == [t \in {} |-> ps[t]]

\* del positions[ticker]
DelPosition(ps, ticker) == [t \in DOMAIN ps \ {ticker} |-> ps[t]]

buy(ticker, qty, price) ==
    LET cost == qty * price
        pos == IF ticker \in DOMAIN positions THEN positions[ticker]
               ELSE [qty |-> 0, avg_cost |-> Zero]
        \* total_cost = pos['qty'] * pos['avg_cost'] + cost, over pos.avg_cost.d
        total_n == pos.qty * pos.avg_cost.n + cost * pos.avg_cost.d
        new_qty == pos.qty + qty
    IN  IF InsufficientFunds(cost, cash)
        THEN /\ last' = Call("buy", ticker, qty, price, "fail")
             /\ UNCHANGED <<cash, positions, history, file>>
        ELSE IF new_qty = 0
        THEN \* total_cost / pos['qty'] raises ZeroDivisionError: cash is
             \* debited and the position holds qty 0; nothing logged or saved
             /\ cash' = cash - cost
             /\ positions' = SetPosition(positions, ticker,
                                 [qty |-> 0, avg_cost |-> pos.avg_cost])
             /\ last' = Call("buy", ticker, qty, price, "raise")
             /\ UNCHANGED <<history, file>>
        ELSE /\ Len(history) < MaxTrades
             /\ cash' = cash - cost
             /\ positions' = SetPosition(positions, ticker,
                                 [qty |-> new_qty,
                                  avg_cost |-> Frac(total_n, pos.avg_cost.d * new_qty)])
             /\ history' = Append(history, TradeRecord("BUY", ticker, qty, price))
             /\ file' = Snapshot(cash', positions', history')
             /\ last' = Call("buy", ticker, qty, price, "ok")

sell(ticker, qty, price) ==
    IF InsufficientPosition(positions, ticker, qty)
    THEN /\ last' = Call("sell", ticker, qty, price, "fail")
         /\ UNCHANGED <<cash, positions, history, file>>
    ELSE /\ Len(history) < MaxTrades
         /\ cash' = cash + qty * price
         /\ positions' =
               IF positions[ticker].qty - qty = 0
               THEN DelPosition(positions, ticker)
               ELSE SetPosition(positions, ticker,
                        [qty |-> positions[ticker].qty - qty,
                         avg_cost |-> positions[ticker].avg_cost])
         /\ history' = Append(history, TradeRecord("SELL", ticker, qty, price))
         /\ file' = Snapshot(cash', positions', history')
         /\ last' = Call("sell", ticker, qty, price, "ok")

Buy ==
    /\ \E ticker \in Tickers, qty \in Qtys, price \in Prices : buy(ticker, qty, price)
    /\ UNCHANGED <<fetchVars, ledgerVars, toolVars>>

Sell ==
    /\ \E ticker \in Tickers, qty \in Qtys, price \in Prices : sell(ticker, qty, price)
    /\ UNCHANGED <<fetchVars, ledgerVars, toolVars>>

(***************************************************************************)
(* PaperTrader as a function of the account, and the data file             *)
(***************************************************************************)
\* the fields of a TradingAccount
Account(c, ps, h) == [cash |-> c, positions |-> ps, history |-> h]

\* TradingAccount()
Fresh == Account(InitialCash, <<>>, <<>>)

\* a variant that averages the old average and the price, unweighted
WeightedAvgSimple(pos, qty, price) ==
    Frac(pos.avg_cost.n + price * pos.avg_cost.d, 2 * pos.avg_cost.d)

\* total_cost / pos['qty'] after pos['qty'] += qty, where
\* total_cost = pos['qty'] * pos['avg_cost'] + qty * price
WeightedAvg(pos, qty, price) ==
    Frac(pos.qty * pos.avg_cost.n + qty * price * pos.avg_cost.d,
         pos.avg_cost.d * (pos.qty + qty))

\* the in-memory effect of buy on account acc, up to _log_trade, and what the
\* call does next: "fail" returns False; "raise" is the ZeroDivisionError of
\* total_cost / pos['qty'] (cash already debited, the position left at
\* qty 0, nothing logged); "ok" goes on to _save_account
BuyAccount(acc, ticker, qty, price) ==
    LET cost == qty * price
        pos == IF ticker \in DOMAIN acc.positions THEN acc.positions[ticker]
               ELSE [qty |-> 0, avg_cost |-> Zero]
    IN  IF InsufficientFunds(cost, acc.cash)
        THEN [ret |-> "fail", acc |-> acc]
        ELSE IF pos.qty + qty = 0
        THEN [ret |-> "raise",
              acc |-> Account(acc.cash - cost,
                              SetPosition(acc.positions, ticker,
                                  [qty |-> 0, avg_cost |-> pos.avg_cost]),
                              acc.history)]
        ELSE [ret |-> "ok",
              acc |-> Account(acc.cash - cost,
                              SetPosition(acc.positions, ticker,
                                  [qty |-> pos.qty + qty,
                                   avg_cost |-> WeightedAvg(pos, qty, price)]),
                              Append(acc.history,
                                     TradeRecord("BUY", ticker, qty, price)))]

\* a variant of sell that keeps a position whose quantity reached 0
RemainingKeepsZero(ps, ticker, qty) ==
    SetPosition(ps, ticker, [qty |-> ps[ticker].qty - qty,
                             avg_cost |-> ps[ticker].avg_cost])

\* pos['qty'] -= qty; if pos['qty'] == 0: del positions[ticker]
Remaining(ps, ticker, qty) ==
    IF ps[ticker].qty - qty = 0
    THEN DelPosition(ps, ticker)
    ELSE SetPosition(ps, ticker, [qty |-> ps[ticker].qty - qty,
                                  avg_cost |-> ps[ticker].avg_cost])

\* the in-memory effect of sell on account acc, up to _log_trade
SellAccount(acc, ticker, qty, price) ==
    IF InsufficientPosition(acc.positions, ticker, qty)
    THEN [ret |-> "fail", acc |-> acc]
    ELSE [ret |-> "ok",
          acc |-> Account(acc.cash + qty * price,
                          Remaining(acc.positions, ticker, qty),
                          Append(acc.history,
                                 TradeRecord("SELL", ticker, qty, price)))]

\* What the data file can hold:
\*   missing     no file
\*   corrupt     not parseable as JSON: empty after open(.., 'w'), partly
\*               written, or garbled
\*   not_object  JSON, but not an object (data.get raises AttributeError)
\*   object      a JSON object, doc holding the keys it has
EmptyDoc == [k \in {} |-> 0]

Missing == [kind |-> "missing", doc |-> EmptyDoc]

Corrupt == [kind |-> "corrupt", doc |-> EmptyDoc]

NotObject == [kind |-> "not_object", doc |-> EmptyDoc]

Document(doc) == [kind |-> "object", doc |-> doc]

\* a variant of _save_account that leaves the history out of the document
JsonDumpNoHistory(acc) ==
    Document([cash |-> acc.cash, positions |-> acc.positions])

\* the document _save_account writes
JsonDump(acc) == Document(Snapshot(acc.cash, acc.positions, acc.history))

\* _load_account: the file's fields, each with its default; a fresh account
\* when the file is missing or anything raises
LoadAccount(f) ==
    IF f.kind # "object" THEN Fresh
    ELSE Account(IF "cash" \in DOMAIN f.doc THEN f.doc.cash ELSE InitialCash,
                 IF "positions" \in DOMAIN f.doc THEN f.doc.positions ELSE <<>>,
                 IF "history" \in DOMAIN f.doc THEN f.doc.history ELSE <<>>)

(***************************************************************************)
(* PaperTrader instances and the steps of their calls                      *)
(***************************************************************************)
Instances == {1, 2}

NoCall == Call("none", "-", 0, 0, "none")

NotBuilt == [st |-> "none", acc |-> Fresh, call |-> NoCall]

\* PaperTrader(): self.account = self._load_account()
Construct(i) ==
    /\ sess[i].st = "none"
    /\ sess' = [sess EXCEPT ![i] = [st |-> "idle", acc |-> LoadAccount(disk),
                                    call |-> Call("init", "-", 0, 0, "ok")]]
    /\ UNCHANGED <<disk, made>>

\* buy or sell on instance i up to _log_trade; a successful call goes on to
\* _save_account before it returns
Trade(i, op, ticker, qty, price, cap) ==
    /\ sess[i].st = "idle"
    /\ \E r \in {IF op = "buy" THEN BuyAccount(sess[i].acc, ticker, qty, price)
                 ELSE SellAccount(sess[i].acc, ticker, qty, price)} :
          /\ r.ret = "ok" => made < cap
          /\ sess' = [sess EXCEPT ![i] =
                         [st |-> IF r.ret = "ok" THEN "save" ELSE "idle",
                          acc |-> r.acc,
                          call |-> Call(op, ticker, qty, price,
                                        IF r.ret = "ok" THEN "saving" ELSE r.ret)]]
          /\ made' = IF r.ret = "ok" THEN made + 1 ELSE made
    /\ UNCHANGED disk

\* with open(self.data_file, 'w'): the file is truncated
SaveOpen(i) ==
    /\ sess[i].st = "save"
    /\ disk' = Corrupt
    /\ sess' = [sess EXCEPT ![i].st = "write"]
    /\ UNCHANGED made

\* json.dump(data, f) and the close; the call returns True. When another
\* instance wrote the file since this one truncated it, the two writes
\* overlap and the content is this document or garbled
SaveDump(i) ==
    /\ sess[i].st = "write"
    /\ disk' \in {JsonDump(sess[i].acc)} \cup (IF disk = Corrupt THEN {} ELSE {Corrupt})
    /\ sess' = [sess EXCEPT ![i].st = "idle", ![i].call.ret = "ok"]
    /\ UNCHANGED made

\* a variant of the failing save in which the error is caught and the call
\* returns True all the same
SaveFailSwallowed(i) ==
    /\ sess[i].st \in {"save", "write"}
    /\ disk' \in IF sess[i].st = "save" THEN {disk}
                 ELSE {Corrupt} \cup (IF disk = Corrupt THEN {} ELSE {disk})
    /\ sess' = [sess EXCEPT ![i].st = "idle", ![i].call.ret = "ok"]
    /\ UNCHANGED made

\* _save_account fails: open raises and the file is as it was, or json.dump
\* (or the close) raises and the file is left partly written. Nothing in
\* _save_account, buy or sell catches the error: the call ends with it, the
\* trade applied and logged in memory
SaveFail(i) ==
    /\ sess[i].st \in {"save", "write"}
    /\ disk' \in IF sess[i].st = "save" THEN {disk}
                 ELSE {Corrupt} \cup (IF disk = Corrupt THEN {} ELSE {disk})
    /\ sess' = [sess EXCEPT ![i].st = "idle", ![i].call.ret = "error"]
    /\ UNCHANGED made

\* ---- files found at start ---------------------------------------------
\* a data file left by an earlier run: buy AAPL 100 @ 150, buy TSLA 100 @ 150
HeldFile ==
    JsonDump(Account(70000,
                     [t \in Tickers |-> [qty |-> 100, avg_cost |-> [n |-> 150, d |-> 1]]],
                     <<TradeRecord("BUY", "AAPL", 100, 150),
                       TradeRecord("BUY", "TSLA", 100, 150)>>))

\* ---- one instance on a data file -------------------------------------
MaxLedgerTrades == 2

\* (qty, price) of the orders placed: the worked examples of the
\* specification, a zero and a negative quantity
Orders == {<<10, 100>>, <<10, 120>>, <<100, 150>>, <<50, 180>>,
           <<0, 100>>, <<-10, 100>>}

LedgerConstruct ==
    /\ Construct(1)
    /\ UNCHANGED <<fetchVars, cash, positions, history, file, last, toolVars>>

LedgerBuy ==
    /\ \E ticker \in Tickers, o \in Orders :
          Trade(1, "buy", ticker, o[1], o[2], MaxLedgerTrades)
    /\ UNCHANGED <<fetchVars, cash, positions, history, file, last, toolVars>>

LedgerSell ==
    /\ \E ticker \in Tickers, o \in Orders :
          Trade(1, "sell", ticker, o[1], o[2], MaxLedgerTrades)
    /\ UNCHANGED <<fetchVars, cash, positions, history, file, last, toolVars>>

LedgerSaveOpen ==
    /\ SaveOpen(1)
    /\ UNCHANGED <<fetchVars, cash, positions, history, file, last, toolVars>>

LedgerSaveDump ==
    /\ SaveDump(1)
    /\ UNCHANGED <<fetchVars, cash, positions, history, file, last, toolVars>>

LedgerNext ==
    \/ LedgerConstruct
    \/ LedgerBuy
    \/ LedgerSell
    \/ LedgerSaveOpen
    \/ LedgerSaveDump

\* ---- two instances on one data file, with crashes -------------------
MaxSessionTrades == 2

SessionOrders == {<<100, 100>>, <<100, 150>>}

\* the data file when the first instance is built
InitialFiles == {Missing, Corrupt, NotObject, Document([cash |-> 5000]), HeldFile}

SessionConstruct ==
    /\ \E i \in Instances : Construct(i)
    /\ UNCHANGED <<fetchVars, cash, positions, history, file, last, toolVars>>

SessionBuy ==
    /\ \E i \in Instances, o \in SessionOrders :
          Trade(i, "buy", "AAPL", o[1], o[2], MaxSessionTrades)
    /\ UNCHANGED <<fetchVars, cash, positions, history, file, last, toolVars>>

SessionSell ==
    /\ \E i \in Instances, o \in SessionOrders :
          Trade(i, "sell", "AAPL", o[1], o[2], MaxSessionTrades)
    /\ UNCHANGED <<fetchVars, cash, positions, history, file, last, toolVars>>

SessionSaveOpen ==
    /\ \E i \in Instances : SaveOpen(i)
    /\ UNCHANGED <<fetchVars, cash, positions, history, file, last, toolVars>>

SessionSaveDump ==
    /\ \E i \in Instances : SaveDump(i)
    /\ UNCHANGED <<fetchVars, cash, positions, history, file, last, toolVars>>

SessionSaveFail ==
    /\ \E i \in Instances : SaveFail(i)
    /\ UNCHANGED <<fetchVars, cash, positions, history, file, last, toolVars>>

\* the process dies: every instance and its account in memory is gone
Crash ==
    /\ \E i \in Instances : sess[i].st # "none"
    /\ sess' = [i \in Instances |-> NotBuilt]
    /\ UNCHANGED <<disk, made>>
    /\ UNCHANGED <<fetchVars, cash, positions, history, file, last, toolVars>>

SessionNext ==
    \/ SessionConstruct
    \/ SessionBuy
    \/ SessionSell
    \/ SessionSaveOpen
    \/ SessionSaveDump
    \/ SessionSaveFail
    \/ Crash

(***************************************************************************)
(* Ticker codes                                                            *)
(***************************************************************************)
\* A string is a sequence of one-character strings.
UpperChar(c) ==
    CASE c = "h" -> "H"
      [] c = "k" -> "K"
      [] c = "u" -> "U"
      [] c = "s" -> "S"
      [] OTHER -> c

\* str.upper
Upper(s) == [i \in 1..Len(s) |-> UpperChar(s[i])]

\* str.lstrip(ch)
RECURSIVE LStrip(_, _)
LStrip(s, ch) == IF s # <<>> /\ Head(s) = ch THEN LStrip(Tail(s), ch) ELSE s

\* the trailing half of str.strip(ch)
RECURSIVE RStrip(_, _)
RStrip(s, ch) ==
    IF s # <<>> /\ s[Len(s)] = ch THEN RStrip(SubSeq(s, 1, Len(s) - 1), ch) ELSE s

\* str.strip(): white space off both ends
Strip(s) == RStrip(LStrip(s, " "), " ")

\* str.startswith
StartsWith(s, p) == Len(s) >= Len(p) /\ SubSeq(s, 1, Len(p)) = p

\* str.endswith
EndsWith(s, p) ==
    Len(s) >= Len(p) /\ SubSeq(s, Len(s) - Len(p) + 1, Len(s)) = p

\* str.replace(old, ""): every occurrence of old, left to right, is taken out
RECURSIVE Remove(_, _)
Remove(s, old) ==
    IF s = <<>> THEN s
    ELSE IF StartsWith(s, old) THEN Remove(SubSeq(s, Len(old) + 1, Len(s)), old)
    ELSE <<Head(s)>> \o Remove(Tail(s), old)

\* str.split(".")[0]
RECURSIVE BeforeDot(_)
BeforeDot(s) ==
    IF s = <<>> \/ Head(s) = "." THEN <<>> ELSE <<Head(s)>> \o BeforeDot(Tail(s))

\* "." in s
HasDot(s) == \E i \in 1..Len(s) : s[i] = "."

\* str.zfill(width), for strings without a sign
RECURSIVE ZFill(_, _)
ZFill(s, width) == IF Len(s) >= width THEN s ELSE ZFill(<<"0">> \o s, width)

\* width of a Futu HK code
HKWidth == 5

US == <<"U", "S", ".">>

HK == <<"H", "K", ".">>

SH == <<"S", "H", ".">>

SZ == <<"S", "Z", ".">>

DotHK == <<".", "H", "K">>

DotSS == <<".", "S", "S">>

DotSH == <<".", "S", "H">>

DotSZ == <<".", "S", "Z">>

\* DataLoader.normalize_ticker
normalize_ticker(ticker) ==
    LET t == Upper(Strip(ticker))
    IN  IF t = <<>> THEN t
        ELSE IF StartsWith(t, US) THEN Remove(t, US)
        ELSE IF StartsWith(t, HK)
             THEN LET code == LStrip(Remove(t, HK), "0")
                  IN  (IF code = <<>> THEN <<"0">> ELSE code) \o DotHK
        ELSE IF StartsWith(t, SH) THEN Remove(t, SH) \o DotSS
        ELSE IF StartsWith(t, SZ) THEN Remove(t, SZ) \o DotSZ
        ELSE t

\* a variant of to_futu_code that does not pad HK codes
ToFutuCodeNoPad(yahoo_ticker) ==
    LET t == Upper(Strip(yahoo_ticker))
    IN  IF t = <<>> THEN t
        ELSE IF \E p \in {US, HK, SH, SZ} : StartsWith(t, p) THEN t
        ELSE IF EndsWith(t, DotHK) THEN HK \o Remove(t, DotHK)
        ELSE IF EndsWith(t, DotSS) \/ EndsWith(t, DotSH) THEN SH \o BeforeDot(t)
        ELSE IF EndsWith(t, DotSZ) THEN SZ \o BeforeDot(t)
        ELSE US \o t

\* market_data_providers.to_futu_code
to_futu_code(yahoo_ticker) ==
    LET t == Upper(Strip(yahoo_ticker))
    IN  IF t = <<>> THEN t
        ELSE IF \E p \in {US, HK, SH, SZ} : StartsWith(t, p) THEN t
        ELSE IF EndsWith(t, DotHK) THEN HK \o ZFill(Remove(t, DotHK), HKWidth)
        ELSE IF EndsWith(t, DotSS) \/ EndsWith(t, DotSH) THEN SH \o BeforeDot(t)
        ELSE IF EndsWith(t, DotSZ) THEN SZ \o BeforeDot(t)
        ELSE US \o t

\* What the HTTP request of a web provider can bring:
\*   error       requests.get raised
\*   bad_status  status_code other than 200
\*   no_data     a body without rows (Stooq) / without the time series key
\*   rows        a body with rows
Responses == {"error", "bad_status", "no_data", "rows"}

Requested(host, symbol, resp) ==
    [ret |-> CASE resp = "error" -> "raise"
               [] resp = "rows" -> "df"
               [] OTHER -> "none",
     http |-> <<[host |-> host, symbol |-> symbol]>>]

NotRequested == [ret |-> "none", http |-> <<>>]

\* a variant of StooqProvider.get_history without the check for a suffix
StooqGetHistoryAnyMarket(yahoo_ticker, resp) ==
    Requested("stooq.com", Upper(yahoo_ticker), resp)

\* StooqProvider.get_history
StooqGetHistory(yahoo_ticker, resp) ==
    LET t == Upper(yahoo_ticker)
    IN  IF HasDot(t) THEN NotRequested
        ELSE Requested("stooq.com", t, resp)

\* AlphaVantageProvider.get_history; has_key: self.api_key is not empty
AlphaVantageGetHistory(yahoo_ticker, has_key, resp) ==
    LET t == Upper(yahoo_ticker)
    IN  IF ~has_key THEN NotRequested
        ELSE IF HasDot(t) THEN NotRequested
        ELSE Requested("www.alphavantage.co", t, resp)

\* ---- the tickers typed -----------------------------------------------
\* the most leading zeros typed in front of a numeric code
MaxZeros == 5

RECURSIVE Zeros(_)
Zeros(k) == IF k = 0 THEN <<>> ELSE <<"0">> \o Zeros(k - 1)

Prefixes == {<<>>, US, HK, SH, SZ, <<"h", "k", ".">>}

SecondPrefixes == {<<>>, US, HK}

Cores == {<<>>, <<"7">>, <<"7", "0", "0">>, <<"7", "0", "0", "0", "0", "0">>, <<"A">>}

Suffixes == {<<>>, DotHK, DotSS, DotSH, DotSZ}

\* where a blank is typed: nowhere, in front, or after the prefixes
Blanks == {"none", "lead", "gap"}

Parts(blank, pre1, pre2, zeros, core, suf) ==
    [blank |-> blank, pre1 |-> pre1, pre2 |-> pre2, zeros |-> zeros,
     core |-> core, suf |-> suf]

\* the string typed
Typed(parts) ==
    (IF parts.blank = "lead" THEN <<" ">> ELSE <<>>)
        \o parts.pre1 \o parts.pre2
        \o (IF parts.blank = "gap" THEN <<" ">> ELSE <<>>)
        \o Zeros(parts.zeros) \o parts.core \o parts.suf

NoParts == Parts("none", <<>>, <<>>, 0, <<>>, <<>>)

TickerState(st, parts, n, nn, futu, ret, http) ==
    [st |-> st, parts |-> parts, x |-> Typed(parts), n |-> n, nn |-> nn,
     futu |-> futu, ret |-> ret, http |-> http]

NoTicker == TickerState("new", NoParts, <<>>, <<>>, <<>>, "-", <<>>)

\* the user types a ticker
TickerEnter ==
    /\ tk.st = "new"
    /\ \E blank \in Blanks, pre1 \in Prefixes, pre2 \in SecondPrefixes,
          zeros \in 0..MaxZeros, core \in Cores, suf \in Suffixes :
          tk' = TickerState("typed", Parts(blank, pre1, pre2, zeros, core, suf),
                            <<>>, <<>>, <<>>, "-", <<>>)
    /\ UNCHANGED <<fetchVars, cash, positions, history, file, last, ledgerVars, cch, tv, appVars>>

\* ticker = self.normalize_ticker(ticker)
TickerNormalize ==
    /\ tk.st = "typed"
    /\ tk' = [tk EXCEPT !.st = "norm", !.n = normalize_ticker(tk.x)]
    /\ UNCHANGED <<fetchVars, cash, positions, history, file, last, ledgerVars, cch, tv, appVars>>

\* normalize_ticker applied to its own result
TickerRenormalize ==
    /\ tk.st = "norm"
    /\ tk' = [tk EXCEPT !.st = "renorm", !.nn = normalize_ticker(tk.n)]
    /\ UNCHANGED <<fetchVars, cash, positions, history, file, last, ledgerVars, cch, tv, appVars>>

\* code = to_futu_code(yahoo_ticker)
TickerToFutu ==
    /\ tk.st = "norm"
    /\ tk' = [tk EXCEPT !.st = "futu", !.futu = to_futu_code(tk.n)]
    /\ UNCHANGED <<fetchVars, cash, positions, history, file, last, ledgerVars, cch, tv, appVars>>

\* StooqProvider().get_history(ticker, ..)
TickerStooq ==
    /\ tk.st = "norm"
    /\ \E resp \in Responses :
          LET r == StooqGetHistory(tk.n, resp)
          IN  tk' = [tk EXCEPT !.st = "stooq", !.ret = r.ret, !.http = r.http]
    /\ UNCHANGED <<fetchVars, cash, positions, history, file, last, ledgerVars, cch, tv, appVars>>

\* AlphaVantageProvider().get_history(ticker, ..)
TickerAlphaVantage ==
    /\ tk.st = "norm"
    /\ \E has_key \in BOOLEAN, resp \in Responses :
          LET r == AlphaVantageGetHistory(tk.n, has_key, resp)
          IN  tk' = [tk EXCEPT !.st = "alphavantage", !.ret = r.ret, !.http = r.http]
    /\ UNCHANGED <<fetchVars, cash, positions, history, file, last, ledgerVars, cch, tv, appVars>>

\* ---- the code an order is placed with ----------------------------------
\* str.split('.')[-1]
RECURSIVE AfterLastDot(_)
AfterLastDot(s) ==
    IF HasDot(s) THEN AfterLastDot(Tail(s)) ELSE s

\* FutuTrader._get_ctx: the trade context and the Futu code for a ticker
_get_ctx(ticker) ==
    IF ~HasDot(ticker) THEN [ctx |-> "ctx_us", code |-> US \o ticker]
    ELSE LET suffix == AfterLastDot(ticker)
         IN  IF suffix = <<"H", "K">>
             THEN [ctx |-> "ctx_hk", code |-> HK \o Remove(ticker, DotHK)]
             ELSE IF suffix \in {<<"S", "S">>, <<"S", "H">>}
             THEN [ctx |-> "ctx_cn",
                   code |-> SH \o Remove(Remove(ticker, DotSS), DotSH)]
             ELSE IF suffix = <<"S", "Z">>
             THEN [ctx |-> "ctx_cn", code |-> SZ \o Remove(ticker, DotSZ)]
             ELSE [ctx |-> "ctx_us", code |-> US \o ticker]

NoOrder == [ctx |-> "-", code |-> <<>>, quote |-> <<>>]

\* o_ticker = st.text_input(..).upper(); trader.buy / trader.sell(o_ticker, ..)
\* places the order with _get_ctx's code, and the quotes of the same ticker
\* are asked for with to_futu_code's
TickerOrder ==
    /\ tk.st = "typed"
    /\ tk' = [tk EXCEPT !.st = "order"]
    /\ oc' = [ctx |-> _get_ctx(Upper(tk.x)).ctx,
              code |-> _get_ctx(Upper(tk.x)).code,
              quote |-> to_futu_code(Upper(tk.x))]
    /\ UNCHANGED <<fetchVars, cash, positions, history, file, last, ledgerVars,
                   cch, tv, qc, rerun>>

TickerNext ==
    \/ TickerEnter
    \/ TickerNormalize
    \/ TickerRenormalize
    \/ TickerToFutu
    \/ TickerStooq
    \/ TickerAlphaVantage
    \/ TickerOrder

(***************************************************************************)
(* The dashboard's caches                                                  *)
(***************************************************************************)
\* @st.cache_data(ttl=600) on cached_history, in seconds
HistoryTtl == 600

\* a variant in which the probe is cached as long as the history
ProbeTtlAsHistory == HistoryTtl

\* @st.cache_data(ttl=15) on cached_probe_futu, in seconds
ProbeTtl == 15

\* the most calls of the cached functions in one run
MaxCalls == 3

\* argument tuples of cached_history: all seven parameters
HistoryKeys ==
    {[ticker |-> "AAPL", period |-> "1y", offline_mode |-> FALSE,
      data_source |-> "auto", futu_host |-> "127.0.0.1", futu_port |-> 11111,
      futu_enabled |-> b] : b \in BOOLEAN}

\* argument tuples of cached_probe_futu
ProbeKeys == {[host |-> "127.0.0.1", port |-> p] : p \in {11111, 11112}}

\* what get_stock_history returns (a DataFrame or None)
HistoryValues == {"df", "none"}

\* what probe_futu_quote returns: (ok, msg)
ProbeValues == {"up", "down"}

\* seconds that pass between two calls
Ticks == {10, 200}

Min(a, b) == IF a < b THEN a ELSE b

\* an entry is served while it is younger than the ttl
Younger(entry, ttl) == entry.age < ttl

\* the decorated function called with arguments key: the stored value when
\* an entry for key is younger than ttl, else the function body runs and
\* its result replaces the entry
CacheGet(cache, key, ttl, computed) ==
    IF key \in DOMAIN cache /\ Younger(cache[key], ttl)
    THEN [ret |-> cache[key].value, invoked |-> FALSE, cache |-> cache]
    ELSE [ret |-> computed, invoked |-> TRUE,
          cache |-> [k \in DOMAIN cache \cup {key} |->
                        IF k = key THEN [value |-> computed, age |-> 0]
                        ELSE cache[k]]]

\* d seconds pass: every entry is d older (ages past the ttl are not told apart)
Older(cache, d, ttl) ==
    [k \in DOMAIN cache |-> [cache[k] EXCEPT !.age = Min(@ + d, ttl)]]

CacheEvent(fn, key, ret, invoked) ==
    [fn |-> fn, key |-> key, ret |-> ret, invoked |-> invoked]

NoCache ==
    [calls |-> 0, hist |-> <<>>, probe |-> <<>>,
     ev |-> CacheEvent("none", "-", "-", FALSE)]

\* df = cached_history(ticker, period, offline_mode, data_source, ..)
CachedHistory ==
    /\ cch.calls < MaxCalls
    /\ \E key \in HistoryKeys, computed \in HistoryValues :
          LET r == CacheGet(cch.hist, key, HistoryTtl, computed)
          IN  cch' = [cch EXCEPT !.calls = @ + 1, !.hist = r.cache,
                                 !.ev = CacheEvent("history", key, r.ret, r.invoked)]
    /\ UNCHANGED <<fetchVars, cash, positions, history, file, last, ledgerVars, tk, tv, appVars>>

\* ok, msg = cached_probe_futu(futu_host, int(futu_port))
CachedProbeFutu ==
    /\ cch.calls < MaxCalls
    /\ \E key \in ProbeKeys, computed \in ProbeValues :
          LET r == CacheGet(cch.probe, key, ProbeTtl, computed)
          IN  cch' = [cch EXCEPT !.calls = @ + 1, !.probe = r.cache,
                                 !.ev = CacheEvent("probe", key, r.ret, r.invoked)]
    /\ UNCHANGED <<fetchVars, cash, positions, history, file, last, ledgerVars, tk, tv, appVars>>

\* time passes; nothing runs
CacheTick ==
    /\ cch.calls < MaxCalls
    /\ \E d \in Ticks :
          cch' = [cch EXCEPT !.hist = Older(@, d, HistoryTtl),
                             !.probe = Older(@, d, ProbeTtl),
                             !.ev = CacheEvent("tick", "-", "-", FALSE)]
    /\ UNCHANGED <<fetchVars, cash, positions, history, file, last, ledgerVars, tk, tv, appVars>>

CacheNext ==
    \/ CachedHistory
    \/ CachedProbeFutu
    \/ CacheTick


(***************************************************************************)
(* The account's valuation                                                 *)
(***************************************************************************)
\* the most trades behind an account that is valued
MaxValueTrades == 2

\* a + b and q * a on exact fractions
FracAdd(a, b) == Frac(a.n * b.d + b.n * a.d, a.d * b.d)

FracScale(q, a) == Frac(q * a.n, a.d)

\* a variant of total_value that values every position at its cost
RECURSIVE MarketValueAtCost(_, _, _)
MarketValueAtCost(ps, current_prices, todo) ==
    IF todo = {} THEN Zero
    ELSE LET ticker == CHOOSE t \in todo : TRUE
         IN  FracAdd(FracScale(ps[ticker].qty, ps[ticker].avg_cost),
                     MarketValueAtCost(ps, current_prices, todo \ {ticker}))

\* the loop of total_value over the positions todo:
\* price = current_prices.get(ticker, pos['avg_cost'])
\* market_value += pos['qty'] * price
RECURSIVE MarketValue(_, _, _)
MarketValue(ps, current_prices, todo) ==
    IF todo = {} THEN Zero
    ELSE LET ticker == CHOOSE t \in todo : TRUE
             price == IF ticker \in DOMAIN current_prices
                      THEN [n |-> current_prices[ticker], d |-> 1]
                      ELSE ps[ticker].avg_cost
         IN  FracAdd(FracScale(ps[ticker].qty, price),
                     MarketValue(ps, current_prices, todo \ {ticker}))

\* TradingAccount.total_value
total_value(acc, current_prices) ==
    FracAdd([n |-> acc.cash, d |-> 1],
            MarketValue(acc.positions, current_prices, DOMAIN acc.positions))

\* the current_prices given: a price for some of the tickers
PriceMaps == UNION {[S -> Prices] : S \in SUBSET Tickers}

ValueState(st, acc, trades, prices, value) ==
    [st |-> st, acc |-> acc, trades |-> trades, prices |-> prices, value |-> value]

NoValue == ValueState("new", Fresh, 0, <<>>, Zero)

\* the account of a PaperTrader built on a data file
ValueOpen ==
    /\ tv.st = "new"
    /\ \E f \in InitialFiles :
          tv' = ValueState("open", LoadAccount(f), 0, <<>>, Zero)
    /\ UNCHANGED <<fetchVars, cash, positions, history, file, last, ledgerVars, tk, cch, appVars>>

\* a buy or sell changes the account (its save is left out here)
ValueTrade ==
    /\ tv.st \in {"open", "valued"}
    /\ tv.trades < MaxValueTrades
    /\ \E op \in {"buy", "sell"}, ticker \in Tickers, o \in Orders :
          LET r == IF op = "buy" THEN BuyAccount(tv.acc, ticker, o[1], o[2])
                   ELSE SellAccount(tv.acc, ticker, o[1], o[2])
          IN  /\ r.ret # "fail"
              /\ tv' = ValueState("open", r.acc, tv.trades + 1, <<>>, Zero)
    /\ UNCHANGED <<fetchVars, cash, positions, history, file, last, ledgerVars, tk, cch, appVars>>

\* account.total_value(current_prices): the account is only read
Valuate ==
    /\ tv.st \in {"open", "valued"}
    /\ \E current_prices \in PriceMaps :
          tv' = [tv EXCEPT !.st = "valued", !.prices = current_prices,
                           !.value = total_value(tv.acc, current_prices)]
    /\ UNCHANGED <<fetchVars, cash, positions, history, file, last, ledgerVars, tk, cch, appVars>>

ValueNext ==
    \/ ValueOpen
    \/ ValueTrade
    \/ Valuate

(***************************************************************************)
(* Futu quote contexts                                                     *)
(***************************************************************************)
\* calls of probe_futu_quote and get_stock_history made in all
MaxQuoteCalls == 3

\* st: where the call stands; who: the call in progress; opened / closed:
\* the OpenQuoteContext objects this call has created and closed; ret: what
\* the last step gave; futu_enabled, ds: the fetch's arguments; calls: the
\* calls made so far
QuoteState(st, who, opened, closed, ret, d, enabled, calls) ==
    [st |-> st, who |-> who, opened |-> opened, closed |-> closed, ret |-> ret,
     ds |-> d, futu_enabled |-> enabled, calls |-> calls]

NoContexts == QuoteState("idle", "-", 0, 0, "-", "auto", TRUE, 0)

\* ok, msg = cached_probe_futu(..) -> probe_futu_quote(host, port)
ProbeCall ==
    /\ qc.st = "idle" /\ qc.calls < MaxQuoteCalls
    /\ qc' = QuoteState("probe_open", "probe", 0, 0, "-", "auto", TRUE, qc.calls + 1)
    /\ UNCHANGED <<fetchVars, cash, positions, history, file, last, ledgerVars,
                   tk, cch, tv, rerun, oc>>

\* from futu import ..; ctx = OpenQuoteContext(host=host, port=port): either
\* raises, into the except clause, which returns (False, ..)
ProbeOpen ==
    /\ qc.st = "probe_open"
    /\ \E out \in {"ok", "raise"} :
          qc' = IF out = "ok"
                THEN [qc EXCEPT !.st = "probe_state", !.opened = @ + 1]
                ELSE [qc EXCEPT !.st = "returned", !.ret = "False"]
    /\ UNCHANGED <<fetchVars, cash, positions, history, file, last, ledgerVars,
                   tk, cch, tv, rerun, oc>>

\* ret, data = ctx.get_global_state(): when it raises, the except clause
\* returns (False, ..) and ctx.close() is skipped
ProbeGetState ==
    /\ qc.st = "probe_state"
    /\ \E out \in {"RET_OK", "RET_ERROR", "raise"} :
          qc' = IF out = "raise"
                THEN [qc EXCEPT !.st = "returned", !.ret = "False"]
                ELSE [qc EXCEPT !.st = "probe_close", !.ret = out]
    /\ UNCHANGED <<fetchVars, cash, positions, history, file, last, ledgerVars,
                   tk, cch, tv, rerun, oc>>

\* ctx.close(), then the return on ret; a close that raises goes to the
\* except clause with the context not closed
ProbeClose ==
    /\ qc.st = "probe_close"
    /\ \E out \in {"ok", "raise"} :
          qc' = IF out = "ok"
                THEN [qc EXCEPT !.st = "returned", !.closed = @ + 1,
                                !.ret = IF qc.ret = "RET_OK" THEN "True" ELSE "False"]
                ELSE [qc EXCEPT !.st = "returned", !.ret = "False"]
    /\ UNCHANGED <<fetchVars, cash, positions, history, file, last, ledgerVars,
                   tk, cch, tv, rerun, oc>>

\* get_stock_history(.., data_source, futu_enabled) is entered
QuoteFetchCall ==
    /\ qc.st = "idle" /\ qc.calls < MaxQuoteCalls
    /\ \E d \in Sources, enabled \in BOOLEAN :
          qc' = QuoteState(IF ExplicitBranch(d) THEN "explicit" ELSE AutoEntry(enabled),
                           "fetch", 0, 0, "-", d, enabled, qc.calls + 1)
    /\ UNCHANGED <<fetchVars, cash, positions, history, file, last, ledgerVars,
                   tk, cch, tv, rerun, oc>>

\* try_provider("futu", lambda: FutuQuoteProvider(host, port)): __init__
\* opens a quote context unless it raises; get_history uses it; try_provider
\* returns the frame or None and drops provider_obj, close() is never called
QuoteTryFutu(q, out, next) ==
    LET built == out # "ctor_fail"
        r == TryProvider("futu", out)
    IN  [q EXCEPT !.opened = IF built THEN @ + 1 ELSE @,
                  !.ret = r.kind,
                  !.st = IF r.kind = "df" THEN "returned" ELSE next]

\* the explicit branch: Futu when asked for, else another provider or none;
\* without a frame the call runs on into the auto chain
QuoteExplicit ==
    /\ qc.st = "explicit"
    /\ IF ExplicitProvider(qc.ds) = "futu"
       THEN \E out \in Outcomes("futu") :
               qc' = QuoteTryFutu(qc, out, AfterExplicit(qc.futu_enabled))
       ELSE \E got \in IF ExplicitProvider(qc.ds) = "-" THEN {FALSE} ELSE BOOLEAN :
               qc' = [qc EXCEPT !.ret = IF got THEN "df" ELSE "none",
                                !.st = IF got THEN "returned"
                                       ELSE AfterExplicit(qc.futu_enabled)]
    /\ UNCHANGED <<fetchVars, cash, positions, history, file, last, ledgerVars,
                   tk, cch, tv, rerun, oc>>

\* the Futu block of the auto chain
QuoteFutu ==
    /\ qc.st = "futu"
    /\ \E out \in Outcomes("futu") :
          qc' = QuoteTryFutu(qc, out, AfterStage("futu"))
    /\ UNCHANGED <<fetchVars, cash, positions, history, file, last, ledgerVars,
                   tk, cch, tv, rerun, oc>>

\* Yahoo, Stooq, AlphaVantage and the local sample: no quote context is
\* touched, the call returns a frame or None
QuoteRest ==
    /\ qc.st = "yahoo_ctor"
    /\ \E got \in BOOLEAN :
          qc' = [qc EXCEPT !.st = "returned", !.ret = IF got THEN "df" ELSE "none"]
    /\ UNCHANGED <<fetchVars, cash, positions, history, file, last, ledgerVars,
                   tk, cch, tv, rerun, oc>>

\* the caller has the result; the contexts the call left open stay open
QuoteReturn ==
    /\ qc.st = "returned"
    /\ qc' = [qc EXCEPT !.st = "idle"]
    /\ UNCHANGED <<fetchVars, cash, positions, history, file, last, ledgerVars,
                   tk, cch, tv, rerun, oc>>

QuoteNext ==
    \/ ProbeCall
    \/ ProbeOpen
    \/ ProbeGetState
    \/ ProbeClose
    \/ QuoteFetchCall
    \/ QuoteExplicit
    \/ QuoteFutu
    \/ QuoteRest
    \/ QuoteReturn

(***************************************************************************)
(* The analysis tab across reruns of app.py                                *)
(***************************************************************************)
\* reruns of main() made in all
MaxReruns == 3

\* the sidebar's data sources in this model; the period and the OpenD host
\* and port are left at one value each (they are compared and passed on as
\* the ticker is)
RerunSources == {"auto", "yahoo"}

\* st.session_state.last_df / last_ticker / last_data_source, the entries of
\* cached_history, and of the rerun just made: its offline_mode, whether it
\* refreshed, and the df the analysis tab went on with
RerunState(last_df, last_ticker, last_data_source, cache, offline, refreshed, df, n) ==
    [last_df |-> last_df, last_ticker |-> last_ticker,
     last_data_source |-> last_data_source, cache |-> cache,
     offline_mode |-> offline, refreshed |-> refreshed, df |-> df, n |-> n]

\* if "last_df" not in st.session_state: st.session_state.last_df = None ..
NoSession == RerunState(NoneResult, "-", "-", <<>>, FALSE, FALSE, NoneResult, 0)

\* what get_stock_history(.., allow_fallback) returns when the providers
\* give rows (tagged with the provider) or nothing
HistoryReturned(rows, allow, exists) ==
    IF rows THEN DataFrame("yahoo")
    ELSE IF UseLocalSample(allow, exists) THEN DataFrame("local_sample")
    ELSE NoneResult

\* need_refresh = refresh_now or last_df is None or last_ticker != ticker or
\* .. or last_data_source != data_source: offline_mode is not looked at
NeedRefresh(s, refresh_now, ticker, data_source, offline) ==
    \/ refresh_now
    \/ s.last_df = NoneResult
    \/ s.last_ticker # ticker
    \/ s.last_data_source # data_source

\* one rerun of main() up to the df the analysis tab uses; elapsed: the time
\* since the rerun before
Rerun ==
    /\ rerun.n < MaxReruns
    /\ \E ticker \in Tickers, offline \in BOOLEAN, data_source \in RerunSources,
          refresh_now \in BOOLEAN, elapsed \in {0, HistoryTtl},
          rows \in BOOLEAN, exists \in BOOLEAN :
          LET aged == Older(rerun.cache, elapsed, HistoryTtl)
              got == CacheGet(aged, <<ticker, offline, data_source>>, HistoryTtl,
                              HistoryReturned(rows, offline, exists))
          IN  IF NeedRefresh(rerun, refresh_now, ticker, data_source, offline)
              THEN rerun' = RerunState(got.ret, ticker, data_source, got.cache,
                                       offline, TRUE, got.ret, rerun.n + 1)
              ELSE rerun' = RerunState(rerun.last_df, rerun.last_ticker,
                                       rerun.last_data_source, aged,
                                       offline, FALSE, rerun.last_df, rerun.n + 1)
    /\ UNCHANGED <<fetchVars, cash, positions, history, file, last, ledgerVars,
                   tk, cch, tv, qc, oc>>

\* the browser tab is closed and a new session starts: session_state is
\* new, the caches of the server process stay
NewSession ==
    /\ rerun.last_ticker # "-"
    /\ rerun' = [NoSession EXCEPT !.cache = rerun.cache, !.n = rerun.n]
    /\ UNCHANGED <<fetchVars, cash, positions, history, file, last, ledgerVars,
                   tk, cch, tv, qc, oc>>

RerunNext ==
    \/ Rerun
    \/ NewSession

(***************************************************************************)
(* Specifications                                                          *)
(***************************************************************************)
\* no fetch in progress; PaperTrader() built with no data file present
Init ==
    /\ pc = "idle"
    /\ ds = "auto"
    /\ allow_fallback = FALSE
    /\ futu_enabled = TRUE
    /\ sampleExists = FALSE
    /\ caller = "direct"
    /\ probeOk = TRUE
    /\ attempt = 0
    /\ log = <<>>
    /\ result = NoResult
    /\ raised = FALSE
    /\ cash = InitialCash
    /\ positions = <<>>
    /\ history = <<>>
    /\ file = "missing"
    /\ last = Call("none", "-", 0, 0, "none")
    /\ sess = [i \in Instances |-> NotBuilt]
    /\ disk = Missing
    /\ made = 0
    /\ tk = NoTicker
    /\ cch = NoCache
    /\ tv = NoValue
    /\ qc = NoContexts
    /\ rerun = NoSession
    /\ oc = NoOrder

\* as Init, with no data file yet or the one an earlier run left
InitLedger ==
    /\ pc = "idle"
    /\ ds = "auto"
    /\ allow_fallback = FALSE
    /\ futu_enabled = TRUE
    /\ sampleExists = FALSE
    /\ caller = "direct"
    /\ probeOk = TRUE
    /\ attempt = 0
    /\ log = <<>>
    /\ result = NoResult
    /\ raised = FALSE
    /\ cash = InitialCash
    /\ positions = <<>>
    /\ history = <<>>
    /\ file = "missing"
    /\ last = Call("none", "-", 0, 0, "none")
    /\ sess = [i \in Instances |-> NotBuilt]
    /\ disk \in {Missing, HeldFile}
    /\ made = 0
    /\ tk = NoTicker
    /\ cch = NoCache
    /\ tv = NoValue
    /\ qc = NoContexts
    /\ rerun = NoSession
    /\ oc = NoOrder

\* as Init, with the data file holding what an earlier run or the user left
InitSessions ==
    /\ pc = "idle"
    /\ ds = "auto"
    /\ allow_fallback = FALSE
    /\ futu_enabled = TRUE
    /\ sampleExists = FALSE
    /\ caller = "direct"
    /\ probeOk = TRUE
    /\ attempt = 0
    /\ log = <<>>
    /\ result = NoResult
    /\ raised = FALSE
    /\ cash = InitialCash
    /\ positions = <<>>
    /\ history = <<>>
    /\ file = "missing"
    /\ last = Call("none", "-", 0, 0, "none")
    /\ sess = [i \in Instances |-> NotBuilt]
    /\ disk \in InitialFiles
    /\ made = 0
    /\ tk = NoTicker
    /\ cch = NoCache
    /\ tv = NoValue
    /\ qc = NoContexts
    /\ rerun = NoSession
    /\ oc = NoOrder

TraderNext ==
    \/ Buy
    \/ Sell

SpecFetch == Init /\ [][FetchNext]_vars

\* the steps inside a call: sequential code, each provider call returning or
\* raising, each sleep ending
FetchStep ==
    \/ ExplicitStep
    \/ FutuStep
    \/ YahooConstruct
    \/ YahooAttempt
    \/ StooqStep
    \/ AlphaVantageStep
    \/ LocalStep

\* calls with any arguments, one after the other
LiveNext ==
    \/ CallDirect
    \/ ExplicitStep
    \/ FutuStep
    \/ YahooConstruct
    \/ YahooAttempt
    \/ StooqStep
    \/ AlphaVantageStep
    \/ LocalStep
    \/ Return

SpecFetchLive == Init /\ [][LiveNext]_vars /\ WF_vars(FetchStep)

SpecTrader == Init /\ [][TraderNext]_vars

SpecTicker == Init /\ [][TickerNext]_vars

SpecCache == Init /\ [][CacheNext]_vars

SpecValue == Init /\ [][ValueNext]_vars

SpecQuote == Init /\ [][QuoteNext]_vars

SpecReruns == Init /\ [][RerunNext]_vars

SpecLedger == InitLedger /\ [][LedgerNext]_vars

SpecSessions == InitSessions /\ [][SessionNext]_vars

(***************************************************************************)
(* Reading the event log of a call                                         *)
(***************************************************************************)
Idx == 1..Len(log)

\* the events in which a provider was built or asked (not the sleeps)
IsAttempt(e) == e.kind \in {"try", "ctor", "call"}

\* the events in which get_history was invoked
InvokesGetHistory(e) ==
    \/ e.kind = "try" /\ e.out # "ctor_fail"
    \/ e.kind = "call"

NoRows == \A i \in Idx : log[i].out # "rows"

Rank(p) ==
    CASE p = "futu" -> 1
      [] p = "yahoo" -> 2
      [] p = "stooq" -> 3
      [] p = "alphavantage" -> 4

\* the provider the call is at when the log ends: the block pc names
AtProvider == IF pc = "yahoo_ctor" THEN "yahoo" ELSE pc

(***************************************************************************)
(* Claims about get_stock_history                                          *)
(***************************************************************************)
\* C1: with data_source naming one provider, only that provider is ever
\* attempted in the call; when it yields nothing the call goes straight to
\* the local-sample step or returns no data.
C1_OnlyRequestedProvider ==
    ds \in Providers =>
        /\ \A i \in Idx : log[i].prov = ds
        /\ pc \in {"explicit", "local", "done"}

\* C2: an auto-mode fetch of the analysis tab or the trading tab, made while
\* the Futu probe reports unavailable, never builds or calls the Futu
\* provider, and the first provider it attempts is Yahoo.
C2_ProbeDownSkipsFutu ==
    (caller \in {"analysis", "trading"} /\ ds = "auto" /\ ~probeOk) =>
        /\ \A i \in Idx : log[i].prov # "futu"
        /\ log # <<>> => log[1].prov = "yahoo"

\* C3: in auto mode the providers are attempted in the order Futu, Yahoo,
\* Stooq, AlphaVantage: a provider is attempted only after every earlier one
\* was attempted (Futu: or skipped) and gave no rows, and the call returns at
\* the first provider that gives rows.
C3_AutoOrder ==
    ds = "auto" =>
        /\ \A i, j \in Idx : i < j => Rank(log[i].prov) <= Rank(log[j].prov)
        /\ \A i \in Idx : \A q \in Providers :
              (Rank(q) < Rank(log[i].prov) /\ (q = "futu" => futu_enabled)) =>
                  \E j \in 1..(i - 1) :
                      IsAttempt(log[j]) /\ log[j].prov = q /\ log[j].out # "rows"
        /\ ~futu_enabled => \A i \in Idx : log[i].prov # "futu"
        /\ \A i \in Idx : log[i].out = "rows" =>
              i = Len(log) /\ pc = "done" /\ result = DataFrame(log[i].prov)

C3_Witness ==
    /\ ds = "auto" /\ pc = "done" /\ Len(log) >= 4
    /\ log[1].prov = "futu"
    /\ \E i \in Idx : log[i].prov = "stooq" /\ log[i].out = "none"
    /\ result = DataFrame("alphavantage")

\* C4: in the Yahoo retry loop a further attempt follows only an attempt
\* that raised a rate-limit error (and its sleep); any other exception, or an
\* empty or None result, ends the loop and the fetcher goes on to Stooq.
C4_YahooRetryOnlyAfterRateLimit ==
    \A i \in Idx : log[i].kind = "call" =>
        /\ \/ i > 1 /\ log[i - 1].kind = "ctor" /\ log[i - 1].out = "ok"
           \/ /\ i > 2
              /\ log[i - 1].kind = "sleep"
              /\ log[i - 2].kind = "call"
              /\ log[i - 2].out = "rate_limit"
        /\ log[i].out \in {"error", "none", "empty"} =>
              IF i = Len(log) THEN pc = "stooq"
              ELSE log[i + 1].kind = "try" /\ log[i + 1].prov = "stooq"

C4_Witness ==
    \E i \in Idx :
        /\ i + 3 <= Len(log)
        /\ log[i].kind = "call" /\ log[i].out = "rate_limit"
        /\ log[i + 1].kind = "sleep"
        /\ log[i + 2].kind = "call" /\ log[i + 2].out = "error"
        /\ log[i + 3].prov = "stooq"

\* C5: for every data_source, one call invokes the Yahoo provider's
\* get_history at most 3 times.
C5_YahooAtMostThree ==
    Cardinality({i \in Idx : log[i].prov = "yahoo" /\ InvokesGetHistory(log[i])})
        <= MaxAttempts

\* C6: the call returns the local sample exactly when every attempted
\* provider gave no rows, allow_fallback is set and the sample file exists;
\* when the providers give nothing and the sample is not allowed or absent it
\* returns None; with allow_fallback false it never returns the local sample.
C6_LocalSample ==
    pc = "done" =>
        /\ result = DataFrame("local_sample") <=>
              (NoRows /\ allow_fallback /\ sampleExists)
        /\ (NoRows /\ ~(allow_fallback /\ sampleExists)) => result = NoneResult
        /\ ~allow_fallback => result.tag # "local_sample"

C6_Witness ==
    /\ pc = "done" /\ result = DataFrame("local_sample")
    /\ \E i \in Idx : log[i].prov = "alphavantage" /\ log[i].out = "empty"
    /\ \E i \in Idx : log[i].kind = "call" /\ log[i].out = "error"

\* C7: every frame the call returns is tagged with the provider whose call
\* produced it in this call (local_sample for the sample file), also when an
\* explicitly requested provider failed and another one supplied the data.
C7_TagIsProducer ==
    result.kind = "df" =>
        IF NoRows THEN result.tag = "local_sample"
        ELSE /\ log[Len(log)].out = "rows"
             /\ InvokesGetHistory(log[Len(log)])
             /\ result.tag = log[Len(log)].prov

C7_Witness ==
    /\ ds = "stooq" /\ pc = "done"
    /\ log[1].prov = "stooq" /\ log[1].phase = "explicit" /\ log[1].out = "error"
    /\ result.tag = "yahoo"

\* the block the chain goes to after the block of event e gave nothing
ChainNext(e) ==
    CASE e.phase = "explicit" -> (IF futu_enabled THEN "futu" ELSE "yahoo")
      [] e.phase = "auto" /\ e.prov = "futu" -> "yahoo"
      [] e.phase = "auto" /\ e.prov = "yahoo" -> "stooq"
      [] e.phase = "auto" /\ e.prov = "stooq" -> "alphavantage"
      [] e.phase = "auto" /\ e.prov = "alphavantage" -> "local"

\* what the call did after event i
Successor(i) ==
    IF i < Len(log) THEN log[i + 1].prov
    ELSE IF pc = "done" THEN "local" ELSE AtProvider

\* C8: a provider result with zero rows, or None, is never returned as a
\* success; the fetcher goes on to the next provider exactly as it does
\* after a network (non-rate-limit) error of that provider.
C8_EmptyLikeError ==
    /\ \A i \in Idx :
          (InvokesGetHistory(log[i]) /\ log[i].out \in {"empty", "none", "error"}) =>
              Successor(i) = ChainNext(log[i])
    /\ (result.kind = "df" /\ result.tag # "local_sample") =>
          log[Len(log)].out = "rows"

C8_Witness ==
    \E i, j \in Idx :
        /\ i + 1 < j /\ j < Len(log)
        /\ log[i].prov = "futu" /\ log[i].out = "empty"
        /\ log[i + 1].prov = "yahoo"
        /\ log[j].prov = "stooq" /\ log[j].out = "none"
        /\ log[j + 1].prov = "alphavantage"

\* C9: get_stock_history never raises because of what providers do; when no
\* data can be obtained it returns None.
C9_NeverRaises ==
    /\ ~raised
    /\ pc = "done" => result.kind \in {"df", "none"}
    /\ (pc = "done" /\ NoRows /\ ~(allow_fallback /\ sampleExists)) =>
          result = NoneResult

C9_Witness ==
    /\ pc = "done" /\ result = NoneResult /\ Len(log) = 10
    /\ log[1].prov = "futu" /\ log[1].out = "ctor_fail"
    /\ log[7].kind = "call" /\ log[7].out = "rate_limit"
    /\ log[9].out = "error"
    /\ log[10].out = "empty"

Calls(i, op) ==
    /\ sess[i].st = "idle"
    /\ sess'[i].call.op = op
    /\ sess'[i] # sess[i]

\* the call instance i takes in this step succeeds (it goes on to save)
Succeeds(i, op) == Calls(i, op) /\ sess'[i].call.ret = "saving"

\* instance i has returned True from a buy or sell and done nothing since
Returned(i) ==
    /\ sess[i].st = "idle"
    /\ sess[i].call.op \in {"buy", "sell"}
    /\ sess[i].call.ret = "ok"

\* C11: a sell fails exactly when the ticker has no position or the held
\* quantity is below the quantity sold, and a failed sell leaves the
\* account (cash, positions, history) and the data file as they were.
C11_SellFailsIffNoPosition ==
    [][\A i \in Instances : Calls(i, "sell") =>
          LET c == sess'[i].call
              a == sess[i].acc
              short == \/ c.ticker \notin DOMAIN a.positions
                       \/ a.positions[c.ticker].qty < c.qty
          IN  /\ (c.ret = "fail") <=> short
              /\ c.ret = "fail" => sess'[i].acc = a /\ disk' = disk]_vars

\* a sell of more than is held has failed
C11_Witness ==
    /\ sess[1].call.op = "sell" /\ sess[1].call.ret = "fail"
    /\ sess[1].call.ticker \in DOMAIN sess[1].acc.positions
    /\ sess[1].acc.positions[sess[1].call.ticker].qty > 0
    /\ sess[1].acc.positions[sess[1].call.ticker].qty < sess[1].call.qty

\* C12: a successful buy of qty at price on a position (old_qty, old_avg),
\* an absent ticker counting as (0, 0), leaves the position at quantity
\* old_qty + qty and average cost (old_qty*old_avg + qty*price) /
\* (old_qty + qty) and takes qty*price from the cash. Buying 10 @ 100 then
\* 10 @ 120 gives average 110; from cash 100000, buying 100 @ 150 then
\* 50 @ 180 gives quantity 150, average 160, cash 76000.
C12_BuyWeightedAverage ==
    [][\A i \in Instances : Succeeds(i, "buy") =>
          LET c == sess'[i].call
              a == sess[i].acc
              b == sess'[i].acc
              old == IF c.ticker \in DOMAIN a.positions
                     THEN a.positions[c.ticker]
                     ELSE [qty |-> 0, avg_cost |-> Zero]
              new == b.positions[c.ticker]
              After(q1, p1) == /\ sess[i].call = Call("buy", c.ticker, q1, p1, "ok")
                               /\ a.history = <<TradeRecord("BUY", c.ticker, q1, p1)>>
          IN  /\ new.qty = old.qty + c.qty
              /\ new.avg_cost.d # 0 /\ old.avg_cost.d # 0
              /\ new.avg_cost.n * old.avg_cost.d * new.qty
                   = (old.qty * old.avg_cost.n
                        + c.qty * c.price * old.avg_cost.d) * new.avg_cost.d
              /\ b.cash = a.cash - c.qty * c.price
              /\ (After(10, 100) /\ c.qty = 10 /\ c.price = 120)
                   => new = [qty |-> 20, avg_cost |-> [n |-> 110, d |-> 1]]
              /\ (After(100, 150) /\ c.qty = 50 /\ c.price = 180)
                   => /\ new = [qty |-> 150, avg_cost |-> [n |-> 160, d |-> 1]]
                      /\ b.cash = 76000]_vars

\* 100 @ 150 then 50 @ 180 of one ticker have been bought from a new account
C12_Witness ==
    /\ Returned(1) /\ sess[1].call = Call("buy", "AAPL", 50, 180, "ok")
    /\ sess[1].acc.history = <<TradeRecord("BUY", "AAPL", 100, 150),
                               TradeRecord("BUY", "AAPL", 50, 180)>>
    /\ sess[1].acc.positions["AAPL"].qty = 150
    /\ sess[1].acc.cash = 76000

\* C13: whatever buy and sell calls were made, failing and raising ones
\* included, no ticker of the positions has quantity 0.
C13_NoZeroPosition ==
    \A i \in Instances :
        \A t \in DOMAIN sess[i].acc.positions : sess[i].acc.positions[t].qty # 0

\* C14: a successful sell adds qty*price to the cash, takes qty from the
\* ticker's quantity (the position is gone when nothing remains), leaves
\* the average cost of what remains as it was, and leaves the position of
\* every other ticker as it was.
C14_SellEffect ==
    [][\A i \in Instances : Succeeds(i, "sell") =>
          LET c == sess'[i].call
              a == sess[i].acc
              b == sess'[i].acc
              t == c.ticker
          IN  /\ b.cash = a.cash + c.qty * c.price
              /\ IF a.positions[t].qty - c.qty = 0
                 THEN t \notin DOMAIN b.positions
                 ELSE /\ t \in DOMAIN b.positions
                      /\ b.positions[t].qty = a.positions[t].qty - c.qty
                      /\ b.positions[t].avg_cost = a.positions[t].avg_cost
              /\ \A u \in Tickers \ {t} :
                    /\ u \in DOMAIN b.positions <=> u \in DOMAIN a.positions
                    /\ u \in DOMAIN a.positions
                         => b.positions[u] = a.positions[u]]_vars

\* part of one position has been sold while another ticker is held
C14_Witness ==
    /\ Returned(1) /\ sess[1].call.op = "sell" /\ sess[1].call.ticker = "AAPL"
    /\ sess[1].call.qty > 0
    /\ DOMAIN sess[1].acc.positions = {"AAPL", "TSLA"}
    /\ sess[1].acc.positions["AAPL"].qty > 0
    /\ sess[1].acc.positions["TSLA"].qty > 0

\* what a successful buy of (qty, price) and, straight after it, a
\* successful sell of the same make of account a: RoundTrip(..)[1] tells
\* whether both succeed, RoundTrip(..)[2] is the account after them
RoundTrip(a, ticker, qty, price) ==
    LET b == BuyAccount(a, ticker, qty, price)
        s == SellAccount(b.acc, ticker, qty, price)
    IN  <<b.ret = "ok" /\ s.ret = "ok", s.acc>>

\* C15 as stated: buying then at once selling the same quantity of the same
\* ticker at the same price brings the cash back to what it was and removes
\* the position.
C15_RoundTripRemoves ==
    \A i \in Instances : sess[i].st = "idle" =>
        \A t \in Tickers, o \in Orders :
            LET rt == RoundTrip(sess[i].acc, t, o[1], o[2])
            IN  rt[1] => /\ rt[2].cash = sess[i].acc.cash
                         /\ t \notin DOMAIN rt[2].positions

\* the quantity of ticker held in positions ps, 0 when it has no position
Held(ps, ticker) == IF ticker \in DOMAIN ps THEN ps[ticker].qty ELSE 0

\* C15, amended: buying then at once selling the same quantity of the same
\* ticker at the same price brings the cash back to what it was and the
\* quantity held of the ticker back to what it was before the buy; the
\* position is removed when that quantity is 0 (nothing was held), and is
\* kept when the ticker was already held.
C15_RoundTrip ==
    \A i \in Instances : sess[i].st = "idle" =>
        \A t \in Tickers, o \in Orders :
            LET a == sess[i].acc
                rt == RoundTrip(a, t, o[1], o[2])
            IN  rt[1] => /\ rt[2].cash = a.cash
                         /\ Held(rt[2].positions, t) = Held(a.positions, t)
                         /\ t \in DOMAIN rt[2].positions
                              <=> Held(a.positions, t) # 0

\* a buy and the same sell straight after it, on a ticker held before
C15_Witness ==
    /\ Returned(1) /\ sess[1].call.op = "sell" /\ Len(sess[1].acc.history) = 4
    /\ sess[1].acc.history[3] =
          TradeRecord("BUY", sess[1].call.ticker, sess[1].call.qty, sess[1].call.price)
    /\ sess[1].acc.history[4] =
          TradeRecord("SELL", sess[1].call.ticker, sess[1].call.qty, sess[1].call.price)
    /\ sess[1].acc.cash = 70000
    /\ sess[1].call.ticker \in DOMAIN sess[1].acc.positions
    /\ sess[1].acc.positions[sess[1].call.ticker].qty = 100

\* C16: once a successful buy or sell has returned, a PaperTrader built on
\* the same data file gets an account equal, field for field, to the one in
\* memory.
C16_ReloadEqualsMemory ==
    \A i \in Instances : Returned(i) => LoadAccount(disk) = sess[i].acc

\* a sell has returned and the account it saved holds a position and history
C16_Witness ==
    /\ Returned(1) /\ sess[1].call.op = "sell"
    /\ Len(sess[1].acc.history) = 2
    /\ DOMAIN sess[1].acc.positions # {}
    /\ disk.kind = "object"

\* the account instance i held before the trade it is now saving, as far as
\* the last record tells: the history without it and the cash before it
IsBefore(got, after) ==
    LET n == Len(after.history)
        rec == after.history[n]
    IN  /\ n > 0
        /\ got.history = SubSeq(after.history, 1, n - 1)
        /\ got.cash = IF rec.action = "BUY" THEN after.cash + rec.amount
                      ELSE after.cash - rec.amount

\* C17: when the process dies at any point of _save_account, a load of the
\* data file afterwards gives the complete account of before the trade or
\* the complete account of after it, never a default, empty or partial one.
C17_CrashLeavesCompleteAccount ==
    [][\A i \in Instances :
          (sess[i].st \in {"save", "write"} /\ sess'[i].st = "none") =>
              \/ LoadAccount(disk') = sess[i].acc
              \/ IsBefore(LoadAccount(disk'), sess[i].acc)]_vars

\* C18: when two PaperTrader instances on one data file each make a
\* successful trade, in any interleaving, the file in the end records both
\* trades.
C18_BothTradesRecorded ==
    ( /\ \A i \in Instances : Returned(i)
      /\ sess[1].call # sess[2].call )
    => /\ disk.kind = "object"
       /\ "history" \in DOMAIN disk.doc
       /\ \A i \in Instances :
             \E k \in DOMAIN disk.doc.history :
                 disk.doc.history[k] =
                     TradeRecord(IF sess[i].call.op = "buy" THEN "BUY" ELSE "SELL",
                                 sess[i].call.ticker, sess[i].call.qty,
                                 sess[i].call.price)

\* an account document with all of its fields
WellFormed(f) ==
    f.kind = "object" /\ DOMAIN f.doc = {"cash", "positions", "history"}

\* C19: when the data file is missing, is not parseable or does not hold a
\* well-formed account document, building a PaperTrader raises nothing and
\* gives a fresh account: cash 100000, no positions, empty history.
C19_BadFileGivesFreshAccount ==
    [][\A i \in Instances :
          (sess[i].st = "none" /\ sess'[i].st = "idle" /\ ~WellFormed(disk))
              => sess'[i].acc = Account(100000, <<>>, <<>>)]_vars

\* C20: each successful buy or sell appends exactly one record at the end
\* of the history, with the call's action, ticker, quantity and price and
\* amount qty*price; a failed call appends nothing; no step changes,
\* reorders or removes a record already there.
C20_HistoryAppendOnly ==
    [][\A i \in Instances :
          (sess[i].st # "none" /\ sess'[i].st # "none") =>
              LET h == sess[i].acc.history
                  h2 == sess'[i].acc.history
                  c == sess'[i].call
              IN  IF Succeeds(i, "buy") \/ Succeeds(i, "sell")
                  THEN h2 = Append(h, [action |-> IF c.op = "buy" THEN "BUY" ELSE "SELL",
                                       ticker |-> c.ticker, qty |-> c.qty,
                                       price |-> c.price,
                                       amount |-> c.qty * c.price])
                  ELSE h2 = h]_vars

\* a successful sell has appended a fourth record, after a buy of another quantity
C20_Witness ==
    /\ Returned(1) /\ sess[1].call.op = "sell"
    /\ Len(sess[1].acc.history) = 4
    /\ sess[1].acc.history[3].action = "BUY"
    /\ sess[1].acc.history[4] =
          [action |-> "SELL", ticker |-> sess[1].call.ticker,
           qty |-> sess[1].call.qty, price |-> sess[1].call.price,
           amount |-> sess[1].call.qty * sess[1].call.price]
    /\ sess[1].acc.history[4].qty # sess[1].acc.history[3].qty

(***************************************************************************)
(* Failing saves                                                           *)
(***************************************************************************)
\* C21: when writing the data file fails during a buy or sell, the call
\* ends with the error: a call returns success only from the step that
\* wrote its snapshot, never for a trade whose snapshot was not written.
C21_NoSuccessWithoutSnapshot ==
    [][\A i \in Instances :
          (sess[i].call.ret = "saving" /\ sess'[i].st = "idle") =>
              IF sess'[i].call.ret = "ok"
              THEN /\ sess[i].st = "write"
                   /\ disk = Corrupt => disk' = JsonDump(sess[i].acc)
              ELSE sess'[i].call.ret = "error"]_vars

\* a buy has ended with the error of a failed write: the trade is in the
\* account in memory and not in the data file
C21_Witness ==
    /\ sess[1].st = "idle" /\ sess[1].call.op = "buy"
    /\ sess[1].call.ret = "error"
    /\ Len(sess[1].acc.history) = 3
    /\ disk = HeldFile
    /\ sess[2].st = "none"

(***************************************************************************)
(* Ticker codes and the web providers                                      *)
(***************************************************************************)
\* the code typed after the prefixes
Body(parts) == Zeros(parts.zeros) \o parts.core

Numeric(core) == core # <<"A">>

\* the ticker typed is one prefix and a code: US.<symbol>, HK.<digits>,
\* SH.<digits> or SZ.<digits>
IsBrokerCode(parts) ==
    /\ parts.blank = "none" /\ parts.pre2 = <<>> /\ parts.suf = <<>>
    /\ parts.pre1 \in {US, HK, SH, SZ}
    /\ Body(parts) # <<>>
    /\ IF parts.pre1 = US THEN parts.core = <<"A">> /\ parts.zeros = 0
       ELSE Numeric(parts.core)

\* the suffixed spellings of the security typed as a broker code
SuffixedSpellings(parts) ==
    CASE parts.pre1 = HK ->
            {Zeros(k) \o parts.core \o DotHK :
                k \in {j \in 0..MaxZeros : Zeros(j) \o parts.core # <<>>}}
      [] parts.pre1 = SH -> {Body(parts) \o DotSS, Body(parts) \o DotSH}
      [] OTHER -> {Body(parts) \o DotSZ}

\* C22: normalize_ticker is idempotent on every input, those with more than
\* one broker prefix or a prefix before a suffixed code included.
C22_NormalizeIdempotent == tk.st = "renorm" => tk.nn = tk.n

\* C23: for every numeric code the broker-prefixed form (HK., SH., SZ., any
\* number of leading zeros for HK) and the suffixed form (.HK, .SS or .SH,
\* .SZ) normalize to the same ticker, as HK.00700 and 0700.HK.
C23_SpellingsAgree ==
    ( /\ tk.st = "norm"
      /\ IsBrokerCode(tk.parts) /\ tk.parts.pre1 # US )
    => \A y \in SuffixedSpellings(tk.parts) : normalize_ticker(y) = tk.n

\* C24 as stated: to_futu_code(normalize_ticker(c)) = c for every broker
\* code c, US.<symbol>, HK.<digits>, SH.<digits>, SZ.<digits>.
C24_FutuRoundTripAll ==
    (tk.st = "futu" /\ IsBrokerCode(tk.parts)) => tk.futu = tk.x

\* an HK code as Futu writes it: five digits or more, zeros in front only
\* to fill five digits
Padded(code) == Len(code) >= 5 /\ (Len(code) > 5 => Head(code) # "0")

\* C24, amended: to_futu_code(normalize_ticker(c)) = c for every broker code
\* c that is US.<symbol>, SH.<digits>, SZ.<digits>, or HK.<digits> with the
\* digits zero-padded to five as Futu writes them; HK.00000, which
\* normalizes to 0.HK, is among these.
C24_FutuRoundTrip ==
    ( /\ tk.st = "futu"
      /\ IsBrokerCode(tk.parts)
      /\ tk.parts.pre1 = HK => Padded(Body(tk.parts)) )
    => tk.futu = tk.x

\* HK.00000 went to 0.HK and back
C24_Witness ==
    /\ tk.st = "futu"
    /\ tk.x = HK \o <<"0", "0", "0", "0", "0">>
    /\ tk.n = <<"0">> \o DotHK
    /\ tk.futu = tk.x

\* C27: StooqProvider and AlphaVantageProvider return no data for a ticker
\* that carries an exchange suffix (has a '.'), without any HTTP request.
C27_SuffixedNotRequested ==
    (tk.st \in {"stooq", "alphavantage"} /\ HasDot(tk.n))
    => tk.ret = "none" /\ tk.http = <<>>

\* Stooq was asked for 700.HK: no data, and no request made
C27_Witness ==
    /\ tk.st = "stooq"
    /\ tk.n = <<"7", "0", "0">> \o DotHK
    /\ tk.ret = "none" /\ tk.http = <<>>

(***************************************************************************)
(* The caches                                                              *)
(***************************************************************************)
\* the entries of the cache of function fn
Entries(c, fn) == IF fn = "history" THEN c.hist ELSE c.probe

\* the cache of the other function
OtherEntries(c, fn) == IF fn = "history" THEN c.probe ELSE c.hist

\* what is stored stays what it was, apart from the entries' ages
SameValues(old, new) ==
    /\ DOMAIN new = DOMAIN old
    /\ \A k \in DOMAIN old : new[k].value = old[k].value

Worth(acc, prices, ticker) ==
    IF ticker \notin DOMAIN acc.positions THEN <<0, 1>>
    ELSE IF ticker \in DOMAIN prices
    THEN <<acc.positions[ticker].qty * prices[ticker], 1>>
    ELSE <<acc.positions[ticker].qty * acc.positions[ticker].avg_cost.n,
           acc.positions[ticker].avg_cost.d>>

\* C26: total_value(current_prices) is the cash plus, over every ticker
\* held, the quantity times current_prices[ticker] where a price is given
\* and times the position's avg_cost where none is; a held ticker without a
\* price does not make it fail, and the account is as it was.
C26_TotalValue ==
    [][(tv'.st = "valued" /\ tv' # tv) =>
          LET a == Worth(tv.acc, tv'.prices, "AAPL")
              t == Worth(tv.acc, tv'.prices, "TSLA")
          IN  /\ Tickers = {"AAPL", "TSLA"}
              /\ tv'.value.d # 0
              /\ tv'.value.n * a[2] * t[2]
                   = (tv.acc.cash * a[2] * t[2] + a[1] * t[2] + t[1] * a[2])
                       * tv'.value.d
              /\ tv'.acc = tv.acc]_vars

\* both tickers held at different costs, one of them priced: 100 AAPL at
\* the price given, 100 TSLA bought at 150 and 10 more at 100 at their cost
C26_Witness ==
    /\ tv.st = "valued"
    /\ DOMAIN tv.acc.positions = {"AAPL", "TSLA"}
    /\ DOMAIN tv.prices = {"AAPL"} /\ tv.prices["AAPL"] = 100
    /\ tv.acc.positions["AAPL"].qty = 100
    /\ tv.acc.positions["TSLA"].qty = 110
    /\ tv.acc.positions["TSLA"].avg_cost.d # 1
    /\ tv.acc.cash = 69000
    /\ tv.value.n * tv.acc.positions["TSLA"].avg_cost.d
         = (79000 * tv.acc.positions["TSLA"].avg_cost.d
              + 110 * tv.acc.positions["TSLA"].avg_cost.n) * tv.value.d

(***************************************************************************)
(* The account's invariants                                                *)
(***************************************************************************)
\* C28: whatever buy and sell calls were made, with any quantities and
\* prices the caller can pass, the cash is not negative and no position has
\* a negative quantity.
C28_NothingNegative ==
    \A i \in Instances :
        /\ sess[i].acc.cash >= 0
        /\ \A t \in DOMAIN sess[i].acc.positions :
              sess[i].acc.positions[t].qty >= 0

\* cash paid (BUY) or received (SELL, negative) by a record
Paid(rec) == IF rec.action = "BUY" THEN rec.amount ELSE -rec.amount

\* the cash paid, less the cash received, over history h
RECURSIVE NetPaid(_)
NetPaid(h) == IF h = <<>> THEN 0 ELSE Paid(Head(h)) + NetPaid(Tail(h))

\* the quantity of ticker bought (sold, negative) by a record
Signed(rec, ticker) ==
    IF rec.ticker # ticker THEN 0
    ELSE IF rec.action = "BUY" THEN rec.qty ELSE -rec.qty

\* the quantity of ticker bought, less the quantity sold, in history h
RECURSIVE NetQty(_, _)
NetQty(h, ticker) ==
    IF h = <<>> THEN 0 ELSE Signed(Head(h), ticker) + NetQty(Tail(h), ticker)

\* C29: the account of a PaperTrader started from a fresh account
\* reconciles with its history: the cash is 100000 less the amounts of the
\* BUY records plus the amounts of the SELL records, and the quantity held
\* of each ticker is the quantity bought less the quantity sold, the ticker
\* having no position exactly when that is 0.
C29_ReconcilesWithHistory ==
    \A i \in Instances : sess[i].st # "none" =>
        LET a == sess[i].acc
        IN  /\ a.cash = 100000 - NetPaid(a.history)
            /\ \A t \in Tickers :
                  /\ Held(a.positions, t) = NetQty(a.history, t)
                  /\ t \notin DOMAIN a.positions <=> NetQty(a.history, t) = 0

(***************************************************************************)
(* Termination of get_stock_history                                        *)
(***************************************************************************)
Invocations == Cardinality({i \in Idx : InvokesGetHistory(log[i])})

Sleeps == Cardinality({i \in Idx : log[i].kind = "sleep"})

\* C30: every get_stock_history call returns in the end, whatever the
\* providers do, after at most 7 get_history invocations in all (one for an
\* explicit source, then Futu once, Yahoo at most three times, Stooq once,
\* AlphaVantage once) and at most 3 backoff sleeps.
C30_ReturnsWithinBudget ==
    /\ [](Invocations <= 7 /\ Sleeps <= 3)
    /\ (pc \notin {"idle", "done"}) ~> (pc = "done")

\* a call that used all of it: 7 invocations and 3 sleeps, then returned
C30_Witness ==
    /\ pc = "done"
    /\ Invocations = 7
    /\ Sleeps = 3
    /\ log[1].phase = "explicit"

(***************************************************************************)
(* The backoff sleeps, the quote contexts, the dashboard's series and the  *)
(* order codes                                                             *)
(***************************************************************************)
\* C31: every backoff sleep of a call is followed by another Yahoo attempt
\* of that call (the sleep last in the log is the one being followed while
\* the Yahoo loop still runs): the fetcher never sleeps after its final
\* Yahoo attempt.
C31_SleepThenAttempt ==
    \A i \in Idx : log[i].kind = "sleep" =>
        IF i < Len(log)
        THEN log[i + 1].prov = "yahoo" /\ log[i + 1].kind = "call"
        ELSE pc = "yahoo"

\* the ticker typed is canonical: a plain symbol, or a numeric code with
\* one of the suffixes .HK, .SS, .SH, .SZ
IsCanonical(parts) ==
    /\ parts.blank = "none" /\ parts.pre1 = <<>> /\ parts.pre2 = <<>>
    /\ Body(parts) # <<>>
    /\ IF parts.suf = <<>> THEN parts.core = <<"A">> /\ parts.zeros = 0
       ELSE Numeric(parts.core)

\* C34: for every canonical ticker the code FutuTrader._get_ctx places the
\* order with equals the code to_futu_code fetches the quotes with, as
\* 0700.HK, which both map to HK.00700.
C34_OrderCodeIsQuoteCode ==
    (tk.st = "order" /\ IsCanonical(tk.parts)) =>
        /\ oc.code = oc.quote
        /\ tk.x = <<"0", "7", "0", "0">> \o DotHK
              => oc.code = HK \o <<"0", "0", "7", "0", "0">>

\* C32: every Futu quote context opened during a get_stock_history call or
\* a probe_futu_quote call is closed before that call returns, whether the
\* call succeeds or fails.
C32_ContextsClosed ==
    qc.st = "returned" => qc.closed = qc.opened

\* C33: in a rerun with offline mode unchecked the series the analysis tab
\* uses is never one tagged local_sample, whatever the reruns before it.
C33_NoSampleWhenOnline ==
    (rerun.n > 0 /\ ~rerun.offline_mode) => rerun.df # DataFrame("local_sample")

====
